---- MODULE Spec2Model ----
(***************************************************************************)
(* Model of mtg.scryfall.ScryfallDB: the card index built from a bulk      *)
(* catalogue (_load_cards_from_db, _load_codename_map), the query engine   *)
(* (lookup) and the single-pair insertion (add_expansion_code).            *)
(*                                                                         *)
(* Strings are sequences of one-character strings, so that lower(),        *)
(* replace(), split(), startswith(), endswith() and "in" are computed the  *)
(* way Python computes them.  None is a value of its own.                  *)
(***************************************************************************)
EXTENDS Integers, Sequences, FiniteSets, TLC

\* ------------------------------------------------------------------------
\* Python values
\* ------------------------------------------------------------------------

\* None, for a str-typed argument modelled as a sequence of characters
None == <<"<None>">>

\* None, for set_type (modelled as a plain string)
NoneType == "<None>"

\* str.lower() on one character
LowerCh(c) ==
    CASE c = "A" -> "a"
      [] c = "B" -> "b"
      [] OTHER -> c

\* str.upper() on one character
UpperCh(c) ==
    CASE c = "a" -> "A"
      [] c = "b" -> "B"
      [] OTHER -> c

\* str.lower()
Lower(s) == [i \in 1..Len(s) |-> LowerCh(s[i])]

\* str.upper()
Upper(s) == [i \in 1..Len(s) |-> UpperCh(s[i])]

\* str.replace(old, new) for a one-character old and any new
RECURSIVE Replace(_, _, _)
Replace(s, old, new) ==
    IF s = <<>> THEN <<>>
    ELSE (IF Head(s) = old THEN new ELSE <<Head(s)>>) \o Replace(Tail(s), old, new)

\* str.startswith(p)
StartsWith(s, p) == Len(p) <= Len(s) /\ SubSeq(s, 1, Len(p)) = p

\* str.endswith(p)
EndsWith(s, p) == Len(p) <= Len(s) /\ SubSeq(s, Len(s) - Len(p) + 1, Len(s)) = p

\* sub in s
Contains(s, sub) ==
    \E i \in 1..(Len(s) - Len(sub) + 1) : SubSeq(s, i, i + Len(sub) - 1) = sub

\* str.split(): the maximal runs of non-whitespace characters
RECURSIVE SplitFrom(_, _, _)
SplitFrom(s, cur, acc) ==
    IF s = <<>> THEN (IF cur = <<>> THEN acc ELSE Append(acc, cur))
    ELSE IF Head(s) = " "
         THEN SplitFrom(Tail(s), <<>>, IF cur = <<>> THEN acc ELSE Append(acc, cur))
         ELSE SplitFrom(Tail(s), Append(cur, Head(s)), acc)

Split(s) == SplitFrom(s, <<>>, <<>>)

\* the elements of a sequence
Range(s) == {s[i] : i \in 1..Len(s)}

\* ------------------------------------------------------------------------
\* The catalogue: raw printing records (entry["name"], ["lang"], ["games"],
\* ["set"], ["set_name"], ["set_type"])
\* ------------------------------------------------------------------------

\* longest catalogue considered
MaxCat == 2

Entry(n, l, g, sc, sn, st) ==
    [name |-> n, lang |-> l, games |-> g, set |-> sc, set_name |-> sn, set_type |-> st]

\* The printings a catalogue is drawn from.  Names: "Ab", "A-b", "A b",
\* "B a" and the double-faced "Ab // B"; sets w and wc (memorabilia), m (core).
\* A card name is not empty and holds no "*", the wildcard of lookup.
EntryPool ==
    { Entry(<<"A","b">>, "en", <<"paper">>, <<"w">>, "Wset", "memorabilia"),
      Entry(<<"A","b">>, "en", <<"paper","mtgo">>, <<"w","c">>, "WCset", "memorabilia"),
      Entry(<<"A","-","b">>, "en", <<"paper">>, <<"m">>, "Mset", "core"),
      Entry(<<"A"," ","b">>, "en", <<>>, <<"w">>, "Wset", "memorabilia"),
      Entry(<<"B"," ","a">>, "en", <<"paper">>, <<"w","c">>, "WCset", "memorabilia"),
      Entry(<<"A","b"," ","/","/"," ","B">>, "en", <<"paper">>, <<"w">>, "Wset", "memorabilia"),
      Entry(<<"A","b">>, "it", <<"paper">>, <<"w">>, "Wset", "memorabilia"),
      Entry(<<"A","b">>, "en", <<"mtgo">>, <<"m">>, "Mset", "core") }

\* the largest catalogue drawn from LongPool
MaxLongCat == 3

\* three printings under two names, for catalogues in which the printings of
\* one name are not adjacent
LongPool ==
    { Entry(<<"A","b">>, "en", <<"paper">>, <<"w">>, "Wset", "memorabilia"),
      Entry(<<"A","b">>, "en", <<"paper","mtgo">>, <<"w","c">>, "WCset", "memorabilia"),
      Entry(<<"B"," ","a">>, "en", <<"paper">>, <<"w","c">>, "WCset", "memorabilia") }

\* every catalogue of at most MaxCat printings, and every catalogue of at most
\* MaxLongCat printings of LongPool
Catalogues ==
    UNION { [1..n -> EntryPool] : n \in 0..MaxCat }
      \cup UNION { [1..n -> LongPool] : n \in 0..MaxLongCat }

\* ------------------------------------------------------------------------
\* Index build
\* ------------------------------------------------------------------------

\* Card namedtuple
Card(e) ==
    [name |-> e.name, lang |-> e.lang, set_code |-> e.set,
     set_name |-> e.set_name, set_type |-> e.set_type]

\* ScryfallDB.make_dbentry with the lower() dropped (a case-sensitive key)
MakeDbentryCaseSensitive(name) == Replace(name, " ", <<"-">>)

\* ScryfallDB.make_dbentry: name.lower().replace(" ", "-")
make_dbentry(name) == Replace(Lower(name), " ", <<"-">>)

\* _load_cards_from_db without the online-only test
SkippedLangOnly(e) == e.lang # "en"

\* the two "continue" tests of _load_cards_from_db
Skipped(e) ==
    \/ e.lang # "en"
    \/ (e.games # <<>> /\ Len(e.games) = 1 /\ e.games[1] = "mtgo")

\* position of a key in the (insertion-ordered) cards map, 0 if absent
KeyPos(cm, k) ==
    IF \E i \in 1..Len(cm) : cm[i].key = k
    THEN CHOOSE i \in 1..Len(cm) : cm[i].key = k
    ELSE 0

\* the printing put in front of the list of its key
MapAppendFront(cm, k, c) ==
    IF KeyPos(cm, k) = 0
    THEN Append(cm, [key |-> k, cards |-> <<c>>])
    ELSE [cm EXCEPT ![KeyPos(cm, k)].cards = <<c>> \o @]

\* self._cards_map[dbentry].append(c) on a defaultdict(list)
MapAppend(cm, k, c) ==
    IF KeyPos(cm, k) = 0
    THEN Append(cm, [key |-> k, cards |-> <<c>>])
    ELSE [cm EXCEPT ![KeyPos(cm, k)].cards = Append(@, c)]

\* ScryfallDB._load_cards_from_db
RECURSIVE LoadCardsFromDb(_, _)
LoadCardsFromDb(catalogue, cm) ==
    IF catalogue = <<>> THEN cm
    ELSE LET e == Head(catalogue) IN
         IF Skipped(e)
         THEN LoadCardsFromDb(Tail(catalogue), cm)
         ELSE LoadCardsFromDb(Tail(catalogue), MapAppend(cm, make_dbentry(e.name), Card(e)))

\* ScryfallDB.all_cards: the lists of the map in key insertion order, each in order
RECURSIVE AllCards(_)
AllCards(cm) ==
    IF cm = <<>> THEN <<>> ELSE Head(cm).cards \o AllCards(Tail(cm))

\* ScryfallDB._load_codename_map: code -> name over every indexed card
LoadCodenameMap(cm) ==
    LET cards == Range(AllCards(cm))
        codes == {c.set_code : c \in cards}
    IN [code \in codes |-> (CHOOSE c \in cards : c.set_code = code).set_name]

\* ------------------------------------------------------------------------
\* lookup
\* ------------------------------------------------------------------------

\* allowed_set_types
allowed_set_types == {"promo", "expansion", "memorabilia", "premium_deck", "funny"}

\* "if set_type and not set_type in allowed_set_types": None and "" are falsy
SetTypeRejected(set_type) ==
    (set_type # NoneType /\ set_type # "") /\ set_type \notin allowed_set_types

\* is_card with the replace("*", "") left out
IsCardAnyCharacter(card_name) ==
    card_name # None /\ Len(card_name) > 0

\* is_card = (card_name is not None) and len(card_name.replace("*", ""))
is_card(card_name) ==
    card_name # None /\ Len(Replace(card_name, "*", <<>>)) > 0

\* the filter function chain with the "*term" test made before the "*term*" one
FilterFunctionSuffixFirst(card_name) ==
    IF StartsWith(card_name, <<"*">>)
    THEN [shape |-> "suffix", term |-> Lower(SubSeq(card_name, 2, Len(card_name)))]
    ELSE IF EndsWith(card_name, <<"*">>)
    THEN [shape |-> "prefix", term |-> Lower(SubSeq(card_name, 1, Len(card_name) - 1))]
    ELSE [shape |-> "word", term |-> card_name]

\* the "set filter function" chain: which f the shape of card_name selects,
\* and the reassigned (stripped, lowercased) card_name it closes over
FilterFunction(card_name) ==
    IF StartsWith(card_name, <<"*">>) /\ EndsWith(card_name, <<"*">>)
    THEN [shape |-> "both", term |-> Lower(SubSeq(card_name, 2, Len(card_name) - 1))]
    ELSE IF StartsWith(card_name, <<"*">>)
    THEN [shape |-> "suffix", term |-> Lower(SubSeq(card_name, 2, Len(card_name)))]
    ELSE IF EndsWith(card_name, <<"*">>)
    THEN [shape |-> "prefix", term |-> Lower(SubSeq(card_name, 1, Len(card_name) - 1))]
    ELSE [shape |-> "word", term |-> card_name]

\* ScryfallDB._isin: reduce(and_, ...) over the words of card_name
isin(card_name, db_entry) ==
    LET db_entry_words == Split(Lower(db_entry))
        words == Split(Lower(card_name))
    IN \A i \in 1..Len(words) : words[i] \in Range(db_entry_words)

\* reduce() of an empty sequence with no initial value raises TypeError
isin_raises(card_name) == Split(Lower(card_name)) = <<>>

\* f(c) for the selected filter function
Accepts(f, c) ==
    CASE f.shape = "both" ->
            StartsWith(Lower(c.name), f.term) \/ EndsWith(Lower(c.name), f.term)
      [] f.shape = "suffix" -> EndsWith(Lower(c.name), f.term)
      [] f.shape = "prefix" -> StartsWith(Lower(c.name), f.term)
      [] OTHER -> isin(f.term, c.name)

\* whether f(c) raises
Raises(f) == f.shape = "word" /\ isin_raises(f.term)

\* cards_pool with doubles_only ignored
InPoolIgnoringDoubles(doubles_only, c) == TRUE

\* cards_pool: filter(lambda c: "//" in c.name, self.all_cards) if doubles_only
InPool(doubles_only, c) == doubles_only => Contains(c.name, <<"/","/">>)

\* entries.extend(filter(f, cards_pool)): all_cards is walked lazily, list by
\* list (li) and item by item (j), while the accepted cards are appended to
\* entries.  t is the position of the list entries aliases in the map (the
\* list _cards_map.get returned), 0 when entries is the fresh default [].
\* Reading an item this very extend appended (past orig, the length the
\* aliased list had at the start) re-appends it: from there on every item
\* read is appended, so the walk never reaches the end of the list.
RECURSIVE ExtendLoop(_, _, _, _, _, _, _, _)
ExtendLoop(cm, entries, t, orig, li, j, f, doubles_only) ==
    IF li > Len(cm) THEN [cm |-> cm, entries |-> entries, kind |-> "ok"]
    ELSE IF j > Len(cm[li].cards)
    THEN ExtendLoop(cm, entries, t, orig, li + 1, 1, f, doubles_only)
    ELSE IF li = t /\ j > orig
    THEN [cm |-> cm, entries |-> entries, kind |-> "diverged"]
    ELSE LET c == cm[li].cards[j] IN
         IF ~InPool(doubles_only, c)
         THEN ExtendLoop(cm, entries, t, orig, li, j + 1, f, doubles_only)
         ELSE IF Raises(f)
         THEN [cm |-> cm, entries |-> entries, kind |-> "TypeError"]
         ELSE IF Accepts(f, c)
         THEN ExtendLoop(IF t = 0 THEN cm ELSE [cm EXCEPT ![t].cards = Append(@, c)],
                         Append(entries, c), t, orig, li, j + 1, f, doubles_only)
         ELSE ExtendLoop(cm, entries, t, orig, li, j + 1, f, doubles_only)

\* the "if is_card:" block of lookup, up to entries = tuple(entries);
\* kind "empty" is the early "return self._result_set([])"
NameResolution(cm, card_name, expand_search, doubles_only) ==
    LET card_dbentry == make_dbentry(card_name)
        t == KeyPos(cm, card_dbentry)
        entries == IF t = 0 THEN <<>> ELSE cm[t].cards
    IN IF entries = <<>> /\ ~expand_search
       THEN [cm |-> cm, entries |-> <<>>, kind |-> "empty"]
       ELSE IF expand_search
       THEN ExtendLoop(cm, entries, t, Len(entries), 1, 1,
                       FilterFunction(card_name), doubles_only)
       ELSE [cm |-> cm, entries |-> entries, kind |-> "ok"]

\* the set_code filter function with the exact-equality branch dropped
SetCodeFilterPrefixOnly(ecm, set_code, c) == StartsWith(c.set_code, set_code)

\* filter_func of "Lookup by set_code"
SetCodeFilter(ecm, set_code, c) ==
    IF set_code \in DOMAIN ecm
    THEN c.set_code = set_code
    ELSE StartsWith(c.set_code, set_code)

\* lambda c: c.set_type == set_type
SetTypeFilter(set_type, c) == c.set_type = set_type

\* "filter unique values" keeping the last card of each name
RECURSIVE UniqueLast(_)
UniqueLast(entries) ==
    IF entries = <<>> THEN <<>>
    ELSE LET rest == UniqueLast(Tail(entries)) IN
         IF \E i \in 1..Len(rest) : rest[i].name = Head(entries).name
         THEN rest
         ELSE <<Head(entries)>> \o rest

\* entries_map.setdefault(e.name, e) in order, then the values of the dict
RECURSIVE UniqueFrom(_, _)
UniqueFrom(entries, entries_map) ==
    IF entries = <<>> THEN entries_map
    ELSE LET e == Head(entries) IN
         IF \E i \in 1..Len(entries_map) : entries_map[i].name = e.name
         THEN UniqueFrom(Tail(entries), entries_map)
         ELSE UniqueFrom(Tail(entries), Append(entries_map, e))

\* "filter unique values"
Unique(entries) == UniqueFrom(entries, <<>>)

\* lookup from "Lookup by set_code" to the final _result_set(entries)
FilterStage(entries, ecm, unique, set_code, set_type) ==
    LET entries_set == SelectSeq(entries, LAMBDA c : SetCodeFilter(ecm, set_code, c))
        after_set == IF set_code # None THEN entries_set ELSE entries
        after_type == IF set_type # NoneType
                      THEN SelectSeq(after_set, LAMBDA c : SetTypeFilter(set_type, c))
                      ELSE after_set
    IN IF set_code # None /\ entries_set = <<>>
       THEN <<>>
       ELSE IF unique THEN Unique(after_type) ELSE after_type

\* what a call produces: kind "iter" is the generator of _result_set over items
Out(kind, items) == [kind |-> kind, items |-> items]

\* ScryfallDB.lookup on the index (cm, ecm): the index it leaves and what it
\* produces (a ValueError value, a raised TypeError, a walk that never ends,
\* or the result sequence)
Lookup(cm, ecm, a) ==
    IF SetTypeRejected(a.set_type)
    THEN [cm |-> cm, out |-> Out("ValueError", <<>>)]
    ELSE IF ~(is_card(a.card_name) \/ a.set_code # None \/ a.set_type # NoneType)
    THEN [cm |-> cm, out |-> Out("iter", <<>>)]
    ELSE IF is_card(a.card_name)
    THEN LET r == NameResolution(cm, a.card_name, a.expand_search, a.doubles_only) IN
         CASE r.kind = "empty" -> [cm |-> r.cm, out |-> Out("iter", <<>>)]
           [] r.kind = "ok" ->
                [cm |-> r.cm,
                 out |-> Out("iter", FilterStage(r.entries, ecm, a.unique,
                                                 a.set_code, a.set_type))]
           [] OTHER -> [cm |-> r.cm, out |-> Out(r.kind, <<>>)]
    ELSE [cm |-> cm,
          out |-> Out("iter", FilterStage(AllCards(cm), ecm, a.unique,
                                          a.set_code, a.set_type))]

\* ------------------------------------------------------------------------
\* The program: one ScryfallDB and a caller that queries and patches it
\* ------------------------------------------------------------------------

VARIABLES
    db,                        \* self._db, the catalogue the index was built from
    cards_map,                 \* self._cards_map, in key insertion order
    expansion_codename_map,    \* self._expansion_codename_map
    pc,                        \* "idle", "returned" (a call came back) or "hung"
    op,                        \* the last operation called
    call,                      \* the arguments of the last lookup
    out,                       \* what the last lookup produced
    collections,               \* the Collection objects of the caller, by number
    last                       \* the last Collection operation and its outcome

vars == <<db, cards_map, expansion_codename_map, pc, op, call, out, collections, last>>

\* no Collection in use, no Collection operation made
NoCollections == <<>>
NoOperation == [op |-> "none"]

Args(n, x, d, u, sc, st) ==
    [card_name |-> n, expand_search |-> x, doubles_only |-> d, unique |-> u,
     set_code |-> sc, set_type |-> st]

\* lookup() with every argument at its default
NoCall == Args(None, FALSE, FALSE, FALSE, None, NoneType)

\* the card_name arguments tried: None, "", "*", " ", "Ab", "AB", "ab", "a b",
\* "A-b", "b", "*A*", "*A", "A*"
CardNames ==
    { None, <<>>, <<"*">>, <<" ">>,
      <<"A","b">>, <<"A","B">>, <<"a","b">>, <<"a"," ","b">>, <<"A","-","b">>,
      <<"b">>, <<"*","A","*">>, <<"*","A">>, <<"A","*">> }

\* the set_code arguments tried
SetCodes == { None, <<"w">> }

\* the set_type arguments tried: absent, valid, not allowed, empty
SetTypes == { NoneType, "memorabilia", "core", "" }

LookupArgs ==
    { Args(n, x, d, u, sc, st) :
        n \in CardNames, x \in BOOLEAN, d \in BOOLEAN, u \in BOOLEAN,
        sc \in SetCodes, st \in SetTypes }

\* the (code, name) pairs add_expansion_code is called with
CodeNames == { <<<<"w">>, "Patched">> }

\* ScryfallDB.__init__
Init ==
    /\ db \in Catalogues
    /\ cards_map = LoadCardsFromDb(db, <<>>)
    /\ expansion_codename_map = LoadCodenameMap(LoadCardsFromDb(db, <<>>))
    /\ pc = "idle"
    /\ op = "none"
    /\ call = NoCall
    /\ out = Out("none", <<>>)
    /\ collections = NoCollections
    /\ last = NoOperation

\* a call of ScryfallDB.lookup
LookupCall ==
    /\ pc = "idle"
    /\ \E a \in LookupArgs :
         LET r == Lookup(cards_map, expansion_codename_map, a) IN
         /\ cards_map' = r.cm
         /\ out' = r.out
         /\ call' = a
         /\ pc' = IF r.out.kind = "diverged" THEN "hung" ELSE "returned"
    /\ op' = "lookup"
    /\ UNCHANGED <<db, expansion_codename_map, collections, last>>

\* add_expansion_code keeping the name a known code already has
AddExpansionCodeKeepExisting ==
    /\ pc = "idle"
    /\ \E cn \in CodeNames :
         LET map == IF DOMAIN expansion_codename_map = {}
                    THEN LoadCodenameMap(cards_map)
                    ELSE expansion_codename_map
         IN expansion_codename_map' =
                [code \in DOMAIN map \cup {cn[1]} |->
                    IF code \in DOMAIN map THEN map[code] ELSE cn[2]]
    /\ pc' = "returned"
    /\ op' = "add_expansion_code"
    /\ call' = NoCall
    /\ out' = Out("none", <<>>)
    /\ UNCHANGED <<db, cards_map, collections, last>>

\* ScryfallDB.add_expansion_code through the expansion_codename_map property
AddExpansionCode ==
    /\ pc = "idle"
    /\ \E cn \in CodeNames :
         LET map == IF DOMAIN expansion_codename_map = {}
                    THEN LoadCodenameMap(cards_map)
                    ELSE expansion_codename_map
         IN expansion_codename_map' =
                [code \in DOMAIN map \cup {cn[1]} |->
                    IF code = cn[1] THEN cn[2] ELSE map[code]]
    /\ pc' = "returned"
    /\ op' = "add_expansion_code"
    /\ call' = NoCall
    /\ out' = Out("none", <<>>)
    /\ UNCHANGED <<db, cards_map, collections, last>>

\* ScryfallDB.__getitem__: tuple(self.lookup(card_name))
GetItem(cm, ecm, card_name) ==
    Lookup(cm, ecm, Args(card_name, FALSE, FALSE, FALSE, None, NoneType))

\* a call of index[card_name]
GetItemCall ==
    /\ pc = "idle"
    /\ \E n \in CardNames \ {None} :
         LET r == GetItem(cards_map, expansion_codename_map, n) IN
         /\ cards_map' = r.cm
         /\ out' = Out("tuple", r.out.items)
         /\ call' = Args(n, FALSE, FALSE, FALSE, None, NoneType)
    /\ pc' = "returned"
    /\ op' = "getitem"
    /\ UNCHANGED <<db, expansion_codename_map, collections, last>>

\* a call of card_name in index (ScryfallDB.__contains__):
\* len(tuple(self.lookup(card_name))) > 0
ContainsCall ==
    /\ pc = "idle"
    /\ \E n \in CardNames \ {None} :
         LET r == GetItem(cards_map, expansion_codename_map, n) IN
         /\ cards_map' = r.cm
         /\ out' = Out(IF Len(r.out.items) > 0 THEN "True" ELSE "False", <<>>)
         /\ call' = Args(n, FALSE, FALSE, FALSE, None, NoneType)
    /\ pc' = "returned"
    /\ op' = "contains"
    /\ UNCHANGED <<db, expansion_codename_map, collections, last>>

\* the caller takes what the call produced (tuple(result), a caught
\* exception) and goes on
CallerResumes ==
    /\ pc = "returned"
    /\ pc' = "idle"
    /\ op' = "none"
    /\ call' = NoCall
    /\ out' = Out("none", <<>>)
    /\ UNCHANGED <<db, cards_map, expansion_codename_map, collections, last>>

Next ==
    \/ LookupCall
    \/ GetItemCall
    \/ ContainsCall
    \/ AddExpansionCode
    \/ CallerResumes

Spec == Init /\ [][Next]_vars

TypeOK ==
    /\ pc \in {"idle", "returned", "hung"}
    /\ out.kind \in {"none", "iter", "ValueError", "TypeError", "diverged",
                   "tuple", "True", "False"}

\* ------------------------------------------------------------------------
\* Collection (src/mtg/collection.py): a label and a table of card rows
\* ------------------------------------------------------------------------

EIGHT_COLS_LAYOUT ==
    <<"Quantity", "Name", "ExpansionCode", "PurchasePrice", "Foil", "Condition",
      "Language", "PurchaseDate">>

NINE_COLS_LAYOUT ==
    <<"Quantity", "Name", "ExpansionCode", "ExpansionName", "PurchasePrice", "Foil",
      "Condition", "Language", "PurchaseDate">>

\* the most rows a collection file holds
MaxRows == 1

\* the card names and quantities of the rows
RowNames == { <<"A","b">>, <<"a","b">> }
Quantities == {1, 2}

\* a row of the data file: a value for every column of its layout
Row(layout, name, quantity) ==
    [c \in Range(layout) |->
        IF c = "Name" THEN name ELSE IF c = "Quantity" THEN quantity ELSE <<"x">>]

\* Collection(filepath, label) once its data is read: _read_mtg_data names the
\* columns by the eight- or the nine-column layout
Collection(label, layout, names) ==
    [label |-> label, columns |-> layout,
     rows |-> [i \in 1..Len(names) |-> Row(layout, names[i], 1)]]

\* data[cols_list]: the listed columns in the listed order, KeyError if one
\* of them is not a column
Select(columns, rows, cols_list) ==
    IF \E i \in 1..Len(cols_list) : cols_list[i] \notin Range(columns)
    THEN [kind |-> "KeyError", columns |-> <<>>, rows |-> <<>>]
    ELSE [kind |-> "table", columns |-> cols_list,
          rows |-> [i \in 1..Len(rows) |->
                      [c \in Range(cols_list) |-> rows[i][c]]]]

\* frame.Name.apply(lambda n: n.lower()), then frame.apply(tuple, 1): each row
\* as the tuple of its values in column order
Tuples(frame) ==
    [i \in 1..Len(frame.rows) |->
        [k \in 1..Len(frame.columns) |->
            IF frame.columns[k] = "Name"
            THEN Lower(frame.rows[i]["Name"])
            ELSE frame.rows[i][frame.columns[k]]]]

\* Collection.diff (and __sub__): the rows of self, names in lower case and
\* PurchaseDate left out, that collection does not hold
diff(self, collection) ==
    IF collection.label # self.label
    THEN [kind |-> "ValueError", columns |-> <<>>, rows |-> <<>>]
    ELSE IF Range(self.columns) # Range(collection.columns)
    THEN [kind |-> "ValueError", columns |-> <<>>, rows |-> <<>>]
    ELSE LET cols_layout == IF Len(self.columns) = 8
                            THEN SubSeq(EIGHT_COLS_LAYOUT, 1, Len(EIGHT_COLS_LAYOUT) - 1)
                            ELSE SubSeq(NINE_COLS_LAYOUT, 1, Len(NINE_COLS_LAYOUT) - 1)
             left == Select(self.columns, self.rows, cols_layout)
             right == Select(collection.columns, collection.rows, cols_layout)
             Kept(i) == \A j \in 1..Len(right.rows) : Tuples(left)[i] # Tuples(right)[j]
             RECURSIVE KeptFrom(_)
             KeptFrom(i) ==
                 IF i > Len(left.rows) THEN <<>>
                 ELSE (IF Kept(i)
                       THEN <<[c \in Range(cols_layout) |->
                                 IF c = "Name" THEN Lower(left.rows[i][c]) ELSE left.rows[i][c]]>>
                       ELSE <<>>) \o KeptFrom(i + 1)
         IN IF left.kind = "KeyError" \/ right.kind = "KeyError"
            THEN [kind |-> "KeyError", columns |-> <<>>, rows |-> <<>>]
            ELSE [kind |-> "table", columns |-> cols_layout, rows |-> KeptFrom(1)]

\* the labels of the two collections, and the lists resort_colunns is called with
Labels == {"Islands", "Islands_old"}
ColsLists ==
    { <<"Name", "Quantity">>,
      <<"PurchaseDate", "Language", "Condition", "Foil", "PurchasePrice",
        "ExpansionCode", "Name", "Quantity">>,
      <<"Name", "Edition">> }

\* two collections read from their files
InitCollection ==
    /\ \E layouts \in [1..2 -> {EIGHT_COLS_LAYOUT, NINE_COLS_LAYOUT}] :
       \E names \in [1..2 -> UNION { [1..n -> RowNames] : n \in 1..MaxRows }] :
       \E label \in Labels :
          collections = [i \in 1..2 |->
              Collection(IF i = 1 THEN "Islands" ELSE label, layouts[i], names[i])]
    /\ last = NoOperation
    /\ db = <<>>
    /\ cards_map = <<>>
    /\ expansion_codename_map = LoadCodenameMap(<<>>)
    /\ pc = "idle"
    /\ op = "none"
    /\ call = NoCall
    /\ out = Out("none", <<>>)

\* Collection.__setitem__ with a tuple key: data.loc[data.Name == m,
\* ["Name", "Quantity"]] = (n, q)
SetItemLoc ==
    /\ \E i \in 1..2 : \E m, n \in RowNames : \E q \in Quantities :
         /\ {"Name", "Quantity"} \subseteq Range(collections[i].columns)
         /\ collections' = [collections EXCEPT ![i].rows =
               [r \in 1..Len(@) |->
                   IF @[r]["Name"] = m
                   THEN [@[r] EXCEPT !["Name"] = n, !["Quantity"] = q]
                   ELSE @[r]]]
         /\ last' = [op |-> "setitem", self |-> i]
    /\ UNCHANGED <<db, cards_map, expansion_codename_map, pc, op, call, out>>

\* Collection.__setitem__ with a column name and a Series: data["NewColumn"] = series
SetItemNewColumn ==
    /\ \E i \in 1..2 :
         LET c == collections[i]
             columns == IF "NewColumn" \in Range(c.columns)
                        THEN c.columns ELSE Append(c.columns, "NewColumn")
         IN /\ collections' = [collections EXCEPT ![i] =
                  [label |-> c.label, columns |-> columns,
                   rows |-> [r \in 1..Len(c.rows) |->
                               [col \in Range(columns) |->
                                   IF col = "NewColumn" THEN <<"n">> ELSE c.rows[r][col]]]]]
            /\ last' = [op |-> "setitem", self |-> i]
    /\ UNCHANGED <<db, cards_map, expansion_codename_map, pc, op, call, out>>

\* Collection.resort_colunns(cols_list)
resort_colunns ==
    /\ \E i \in 1..2 : \E cols_list \in ColsLists :
         LET c == collections[i] IN
         IF \E k \in 1..Len(cols_list) : cols_list[k] \notin Range(c.columns)
         THEN /\ last' = [op |-> "resort_colunns", self |-> i, out |-> "ValueError"]
              /\ UNCHANGED collections
         ELSE /\ last' = [op |-> "resort_colunns", self |-> i, out |-> "None"]
              /\ collections' = [collections EXCEPT ![i] =
                    [label |-> c.label, columns |-> cols_list,
                     rows |-> Select(c.columns, c.rows, cols_list).rows]]
    /\ UNCHANGED <<db, cards_map, expansion_codename_map, pc, op, call, out>>

\* self - collection
DiffCall ==
    /\ \E i, j \in 1..2 :
         last' = [op |-> "diff", self |-> i, collection |-> j,
                  out |-> diff(collections[i], collections[j])]
    /\ UNCHANGED <<db, cards_map, expansion_codename_map, pc, op, call, out, collections>>

NextCollection ==
    \/ SetItemLoc
    \/ SetItemNewColumn
    \/ resort_colunns
    \/ DiffCall

SpecCollection == InitCollection /\ [][NextCollection]_vars

\* ------------------------------------------------------------------------
\* Properties
\* ------------------------------------------------------------------------

\* lookup(card_name) with no other argument, on the current index
Exact(card_name) ==
    Lookup(cards_map, expansion_codename_map,
           Args(card_name, FALSE, FALSE, FALSE, None, NoneType)).out

\* C1: a lookup call that comes back leaves the name-to-printings mapping and
\* the set-code-to-name mapping as they were before the call.
C1_LookupLeavesIndexUnchanged ==
    [][(pc = "idle" /\ op' = "lookup" /\ pc' = "returned")
          => (cards_map' = cards_map
              /\ expansion_codename_map' = expansion_codename_map)]_vars

\* C2: every lookup invocation terminates, whatever the index holds and
\* whatever the arguments are.
C2_LookupTerminates ==
    op = "lookup" => out.kind # "diverged"

\* the catalogue records the index is to retain
Retained(r) == r.lang = "en" /\ Range(r.games) # {"mtgo"}

\* C3: every English catalogue record that is not online-only is found by
\* lookup(r.name); a record of another language or with platforms exactly
\* {"mtgo"} is never among the records a lookup returns.
C3_RetainedFoundExcludedNever ==
    /\ pc = "idle" =>
         \A i \in 1..Len(db) :
            Retained(db[i]) =>
                /\ Exact(db[i].name).kind = "iter"
                /\ Card(db[i]) \in Range(Exact(db[i].name).items)
    /\ op = "lookup" =>
         \A i \in 1..Len(db) :
            ~Retained(db[i]) => Card(db[i]) \notin Range(out.items)

\* C3 witness: a plain lookup by name returned the English paper printing of
\* a card whose catalogue also holds an excluded printing of the same name
C3_Witness ==
    /\ op = "lookup"
    /\ call = Args(call.card_name, FALSE, FALSE, FALSE, None, NoneType)
    /\ out.kind = "iter"
    /\ \E i, j \in 1..Len(db) :
         /\ Retained(db[i]) /\ ~Retained(db[j])
         /\ db[i].name = call.card_name /\ db[j].name = call.card_name
         /\ Card(db[i]) \in Range(out.items)

\* C4: exact lookup is case-insensitive: lookup(X), lookup(X.upper()) and
\* lookup(X.lower()) give the same records in the same order.
C4_CaseInsensitive ==
    pc = "idle" =>
        \A X \in CardNames \ {None} :
            /\ Exact(X) = Exact(Upper(X))
            /\ Exact(X) = Exact(Lower(X))

\* C4 witness: a lookup by a name spelt in another case than the stored name
\* returned that card's printings
C4_Witness ==
    /\ op = "lookup"
    /\ call = Args(<<"A","B">>, FALSE, FALSE, FALSE, None, NoneType)
    /\ out.kind = "iter"
    /\ \E c \in Range(out.items) : c.name = <<"A","b">>

\* the card_name arguments that name a card: some character other than "*"
NamedQueries == CardNames \ { None, <<>>, <<"*">> }

\* lookup(card_name, set_code=C) on the current index
BySetCode(card_name, C) ==
    Lookup(cards_map, expansion_codename_map,
           Args(card_name, FALSE, FALSE, FALSE, C, NoneType)).out

\* the set codes C5 is checked for: "w", "wc", "m", "W", "x" and ""
C5_Codes == { <<"w">>, <<"w","c">>, <<"m">>, <<"W">>, <<"x">>, <<>> }

\* the records s keeps of the candidates: exactly C when C is a known code,
\* beginning with C otherwise
C5_Kept(candidates, C) ==
    IF C \in DOMAIN expansion_codename_map
    THEN SelectSeq(candidates, LAMBDA c : c.set_code = C)
    ELSE SelectSeq(candidates, LAMBDA c : StartsWith(c.set_code, C))

BySetType(card_name, u, T) ==
    Lookup(cards_map, expansion_codename_map,
           Args(card_name, FALSE, FALSE, u, None, T)).out

\* kept is candidates cut down to the first record of each name, in order
FirstOfEachName(kept, candidates) ==
    \E pos \in [1..Len(kept) -> 1..Len(candidates)] :
        /\ \A i \in 1..Len(kept) : kept[i] = candidates[pos[i]]
        /\ \A i, j \in 1..Len(kept) : i < j => pos[i] < pos[j]
        /\ \A i \in 1..Len(kept) :
              \A k \in 1..(pos[i] - 1) : candidates[k].name # kept[i].name
        /\ \A k \in 1..Len(candidates) :
              \E i \in 1..Len(kept) : kept[i].name = candidates[k].name

\* C6: lookup(name, set_type=T) returns only records of set type T; with
\* unique=True it returns, in the same relative order, the first record of
\* each distinct name of that filtered sequence and no other.
C6_SetTypeAndUnique ==
    pc = "idle" =>
        \A X \in CardNames : \A T \in allowed_set_types :
            /\ BySetType(X, FALSE, T).kind = "iter"
            /\ BySetType(X, TRUE, T).kind = "iter"
            /\ \A c \in Range(BySetType(X, FALSE, T).items) : c.set_type = T
            /\ FirstOfEachName(BySetType(X, TRUE, T).items, BySetType(X, FALSE, T).items)

\* C6 witness: a unique lookup by name and set type returned one record where
\* the same lookup without unique returns two printings of that name
C6_Witness ==
    /\ op = "lookup"
    /\ call = Args(call.card_name, FALSE, FALSE, TRUE, None, "memorabilia")
    /\ out.kind = "iter" /\ Len(out.items) = 1
    /\ Len(BySetType(call.card_name, FALSE, "memorabilia").items) = 2
    /\ BySetType(call.card_name, FALSE, "memorabilia").items[1]
         # BySetType(call.card_name, FALSE, "memorabilia").items[2]

\* C7: a set_type that is supplied and is not an allowed value makes lookup
\* yield the invalid-argument error, whatever the other arguments are.
C7_BadSetTypeIsError ==
    (op = "lookup" /\ call.set_type # NoneType /\ call.set_type \notin allowed_set_types)
        => out.kind = "ValueError"

\* C8: with set_type absent or valid, lookup never raises.
C8_NeverRaises ==
    (op = "lookup" /\ (call.set_type = NoneType \/ call.set_type \in allowed_set_types))
        => out.kind # "TypeError"

\* lookup(card_name, expand_search=True) on the current index
Expanded(card_name) ==
    Lookup(cards_map, expansion_codename_map,
           Args(card_name, TRUE, FALSE, FALSE, None, NoneType)).out

\* the terms C9 is checked for (no wildcard in them): "", "a", "A", "b", "B",
\* "Ab", "b a", "-b" and " "
C9_Terms ==
    { <<>>, <<"a">>, <<"A">>, <<"b">>, <<"B">>, <<"A","b">>, <<"b"," ","a">>,
      <<"-","b">>, <<" ">> }

\* C9: the records of lookup("*term*", expand_search=True) are those of
\* lookup("*term", ...) together with those of lookup("term*", ...), and the
\* name of each starts or ends with term, letter case aside.
C9_BothIsUnionOfSuffixAndPrefix ==
    pc = "idle" =>
        \A term \in C9_Terms :
            LET both == Expanded(<<"*">> \o term \o <<"*">>)
                suffix == Expanded(<<"*">> \o term)
                prefix == Expanded(term \o <<"*">>)
            IN /\ both.kind = "iter" /\ suffix.kind = "iter" /\ prefix.kind = "iter"
               /\ Range(both.items) = Range(suffix.items) \cup Range(prefix.items)
               /\ \A c \in Range(both.items) :
                     \/ SubSeq(Lower(c.name), 1, Len(term)) = Lower(term)
                     \/ SubSeq(Lower(c.name), Len(c.name) - Len(term) + 1, Len(c.name))
                            = Lower(term)

\* C9 witness: lookup("*A*", expand_search=True) returned a card whose name
\* only starts with "a" and another whose name only ends with "a"
C9_Witness ==
    /\ op = "lookup"
    /\ call = Args(<<"*","A","*">>, TRUE, FALSE, FALSE, None, NoneType)
    /\ out.kind = "iter"
    /\ \E c, d \in Range(out.items) :
         /\ c.name = <<"A","b">>
         /\ d.name = <<"B"," ","a">>

\* C10 as stated: with expand_search and doubles_only every returned record
\* has a name containing "//".
C10_DoublesOnlyAllDoubles ==
    (op = "lookup" /\ call.expand_search /\ call.doubles_only)
        => \A c \in Range(out.items) : Contains(c.name, <<"/","/">>)

\* C10 amended: when card_name names a card (it has a character other than
\* "*"), expand_search and doubles_only make every returned record either
\* have a name containing "//" or be one of the records lookup(card_name)
\* alone returns on the index as it was before the call; without
\* expand_search, doubles_only changes nothing in what the call produces.
C10_DoublesOnlyBeyondExact ==
    [][(pc = "idle" /\ op' = "lookup") =>
         /\ (call'.card_name \in NamedQueries
                /\ call'.expand_search /\ call'.doubles_only) =>
               \A c \in Range(out'.items) :
                  \/ Contains(c.name, <<"/","/">>)
                  \/ c \in Range(Exact(call'.card_name).items)
         /\ ~call'.expand_search =>
               /\ out' = Lookup(cards_map, expansion_codename_map,
                                [call' EXCEPT !.doubles_only = ~@]).out
               /\ cards_map' = cards_map]_vars

\* C10 witness: an expanded doubles-only lookup returned a double-faced card
\* after the exact match of the name, which is not double-faced
C10_Witness ==
    /\ op = "lookup"
    /\ call.expand_search /\ call.doubles_only /\ ~call.unique
    /\ call.set_code = None /\ call.set_type = NoneType
    /\ out.kind = "iter" /\ Len(out.items) = 2
    /\ ~Contains(out.items[1].name, <<"/","/">>)
    /\ Contains(out.items[2].name, <<"/","/">>)

\* C11: index[name] is the tuple of lookup(name), name in index is true
\* exactly when that tuple is not empty, and every record of index[name] has
\* the queried name, letter case aside.
C11_GetItemAndContains ==
    /\ op = "getitem" =>
         /\ out.items = Exact(call.card_name).items
         /\ \A c \in Range(out.items) : Lower(c.name) = Lower(call.card_name)
    /\ op = "contains" =>
         (out.kind = "True" <=> Exact(call.card_name).items # <<>>)

\* card_name is absent, empty, or made of "*" characters only
OnlyStars(card_name) ==
    card_name = None \/ \A i \in 1..Len(card_name) : card_name[i] = "*"

\* C12: without set_code and set_type, a lookup whose card_name is absent,
\* empty or made of "*" only returns an empty sequence, whatever
\* expand_search, doubles_only and unique are (and leaves the index alone).
C12_NoCriterionIsEmpty ==
    /\ (op = "lookup" /\ call.set_code = None /\ call.set_type = NoneType
          /\ OnlyStars(call.card_name))
         => out = Out("iter", <<>>)
    /\ pc = "idle" =>
         \A n \in { <<"*","*">>, <<"*","*","*">> } :
            \A x, d, u \in BOOLEAN :
               Lookup(cards_map, expansion_codename_map,
                      Args(n, x, d, u, None, NoneType))
                 = [cm |-> cards_map, out |-> Out("iter", <<>>)]

\* C12 witness: lookup("*", expand_search=True) on an index that holds cards
\* returned the empty sequence
C12_Witness ==
    /\ op = "lookup"
    /\ call.card_name = <<"*">> /\ call.expand_search
    /\ call.set_code = None /\ call.set_type = NoneType
    /\ cards_map # <<>>
    /\ out = Out("iter", <<>>)

\* s can be obtained from t by deleting elements of t
RECURSIVE IsSubseq(_, _)
IsSubseq(s, t) ==
    IF s = <<>> THEN TRUE
    ELSE IF t = <<>> THEN FALSE
    ELSE IF Head(s) = Head(t) THEN IsSubseq(Tail(s), Tail(t))
    ELSE IsSubseq(s, Tail(t))

\* the retained records of the catalogue, in catalogue order
RECURSIVE RetainedCards(_)
RetainedCards(catalogue) ==
    IF catalogue = <<>> THEN <<>>
    ELSE IF Retained(Head(catalogue))
         THEN <<Card(Head(catalogue))>> \o RetainedCards(Tail(catalogue))
         ELSE RetainedCards(Tail(catalogue))

\* cards regrouped by normalised name: the groups in order of first
\* appearance, each group in the order of cards
RECURSIVE GroupedByName(_)
GroupedByName(cards) ==
    IF cards = <<>> THEN <<>>
    ELSE LET SameName(c) == Lower(Replace(c.name, " ", <<"-">>))
                              = Lower(Replace(Head(cards).name, " ", <<"-">>))
             OtherName(c) == ~SameName(c)
         IN SelectSeq(cards, SameName) \o GroupedByName(SelectSeq(cards, OtherName))

\* no two retained records of the catalogue are equal
NoTwin(catalogue) ==
    LET r == RetainedCards(catalogue) IN
    \A i, j \in 1..Len(r) : r[i] = r[j] => i = j

\* C13 as stated: the records of a lookup without a name criterion, and those
\* of an expanded lookup with no exact match, come in the relative order of
\* their records in the catalogue (checked where the catalogue records differ
\* from one another).
C13_CatalogueOrder ==
    (/\ op = "lookup" /\ out.kind = "iter"
     /\ NoTwin(db)
     /\ \/ ~is_card(call.card_name)
        \/ call.expand_search /\ Exact(call.card_name).items = <<>>)
        => IsSubseq(out.items, RetainedCards(db))

\* C13 amended: the records come in the order the index holds them when the
\* call is made, the exact matches first; an index as built holds the retained
\* records grouped by normalised name, the names in order of first appearance
\* and the printings of a name in catalogue order.
C13_IndexOrder ==
    [][(pc = "idle" /\ op' = "lookup" /\ out'.kind = "iter")
          => /\ IsSubseq(out'.items,
                  IF is_card(call'.card_name)
                  THEN Exact(call'.card_name).items
                         \o (IF call'.expand_search THEN AllCards(cards_map) ELSE <<>>)
                  ELSE AllCards(cards_map))
             /\ cards_map = LoadCardsFromDb(db, <<>>)
                  => AllCards(cards_map) = GroupedByName(RetainedCards(db))]_vars

\* C13 witness: a lookup by set type alone returned three records that are
\* not in catalogue order
C13_Witness ==
    /\ op = "lookup" /\ out.kind = "iter"
    /\ ~is_card(call.card_name)
    /\ Len(out.items) = 3
    /\ out.items = AllCards(cards_map)
    /\ NoTwin(db)
    /\ ~IsSubseq(out.items, RetainedCards(db))

\* C14: a lookup by set code that finds no record of exactly that code falls
\* back on the code as a prefix, so it comes back empty only if no candidate
\* has a set code starting with it.
C14_EmptyOnlyIfNoPrefixMatch ==
    (/\ op = "lookup" /\ out = Out("iter", <<>>)
     /\ call.set_code # None /\ call.set_type = NoneType
     /\ ~call.expand_search)
        => LET candidates == IF is_card(call.card_name)
                             THEN Exact(call.card_name).items
                             ELSE AllCards(cards_map)
           IN \A c \in Range(candidates) : ~StartsWith(c.set_code, call.set_code)

\* the matcher C16 describes for a name of shape "*term", "term*" or plain
C16_Matches(card_name, c) ==
    IF Head(card_name) = "*"
    THEN EndsWith(Lower(c.name), Lower(Tail(card_name)))
    ELSE IF card_name[Len(card_name)] = "*"
    THEN StartsWith(Lower(c.name), Lower(SubSeq(card_name, 1, Len(card_name) - 1)))
    ELSE \A token \in Range(Split(Lower(card_name))) :
            token \in Range(Split(Lower(c.name)))

\* C16: with expand_search=True, no exact match and no further filter, the
\* result is exactly the indexed records the matcher of the name's shape
\* accepts ("*term": ends with term, "term*": starts with term, plain: every
\* whitespace-delimited token of the name is a token of the record's name).
C16_ExpansionIsMatcherResult ==
    (/\ op = "lookup"
     /\ call.card_name \in NamedQueries
     /\ ~(Head(call.card_name) = "*" /\ call.card_name[Len(call.card_name)] = "*")
     /\ call.expand_search /\ ~call.doubles_only /\ ~call.unique
     /\ call.set_code = None /\ call.set_type = NoneType
     /\ Exact(call.card_name).items = <<>>)
        => /\ out.kind = "iter"
           /\ LET Accepted(c) == C16_Matches(call.card_name, c)
              IN out.items = SelectSeq(AllCards(cards_map), Accepted)

\* the candidates of a lookup of card_name (None: every indexed record) whose
\* set code begins with C
C17_PrefixMatches(card_name, C) ==
    LET BeginsWithC(c) == StartsWith(c.set_code, C)
    IN SelectSeq(IF card_name = None THEN AllCards(cards_map)
                 ELSE Exact(card_name).items, BeginsWithC)

C15_DiffOfEqualsIsEmpty ==
    last.op = "diff" =>
        LET self == collections[last.self]
            collection == collections[last.collection]
            Empty == last.out.kind = "table" /\ last.out.rows = <<>>
        IN /\ (self.label # collection.label
                 \/ Range(self.columns) # Range(collection.columns))
                => last.out.kind = "ValueError"
           /\ last.self = last.collection => Empty
           /\ (self.label = collection.label /\ self.rows = collection.rows) => Empty
           /\ last.out.kind = "table" => "PurchaseDate" \notin Range(last.out.columns)

====
